---- MODULE Spec2Model ----
(***************************************************************************)
(* Model of the two scripts of playwrightremotewebdriver:                  *)
(*   server.py  run_server : the Launcher (subprocess supervisor that      *)
(*                           scans the subprocess output for ws://...)     *)
(*   client.py  run_client : the Connector (one scripted browser session)  *)
(* Text is modelled as sequences of one-character strings so that the      *)
(* substring test and the regular expression are computed, not assumed.    *)
(***************************************************************************)
EXTENDS Integers, Sequences, FiniteSets, TLC

VARIABLES
    pc,           \* position of run_server (server.py statement about to run)
    process,      \* the subprocess: "none", "running", "exited"
    streamOpen,   \* write end of process.stdout still open
    stdout,       \* lines written by the subprocess, not yet read
    received,     \* lines returned so far by process.stdout.readline
    eof,          \* readline has returned '' (the for loop has ended)
    line,         \* loop variable `line`
    ws_endpoint,  \* local ws_endpoint: None or Some(text)
    out,          \* what run_server printed to the operator, in order
    terminated,   \* process.terminate() has been called
    intAt,        \* positions at which a KeyboardInterrupt was delivered
    cpc,          \* position of client.py (main block, then run_client)
    argv,         \* sys.argv of the Connector
    endpoint,     \* argument passed to run_client: None or Some(text)
    playwright,   \* sync_playwright() context: "none", "entered", "exited"
    browser,      \* connection: "none", "open", "closed"
    steps,        \* library calls of run_client that completed, in order
    failed,       \* the library call that raised, or "none"
    cout          \* what client.py printed, in order

lvars == <<pc, process, streamOpen, stdout, received, eof, line, ws_endpoint,
           out, terminated, intAt>>
cvars == <<cpc, argv, endpoint, playwright, browser, steps, failed, cout>>
vars  == <<pc, process, streamOpen, stdout, received, eof, line, ws_endpoint,
           out, terminated, intAt, cpc, argv, endpoint, playwright, browser,
           steps, failed, cout>>

----------------------------------------------------------------------------
(* Bounds of the model *)

\* number of lines the subprocess writes in one run
MaxLines == 3
\* number of command-line arguments given to the Connector
MaxArgs == 2

----------------------------------------------------------------------------
(* Text *)

None == <<>>
Some(x) == <<x>>

\* the literal "ws://" of server.py line 25 and of the pattern at line 27
WS_LITERAL == <<"w", "s", ":", "/", "/">>

\* characters that \S does not match
Whitespace == {" ", "\t", "\n", "\r", "\f"}

\* output lines the subprocess may write (each as readline returns it)
LListening == <<"L", "i", "s", "t", "e", "n", "i", "n", "g", ".", ".", ".", "\n">>
LEndpoint == <<"W", "S", " ", "e", "n", "d", "p", "o", "i", "n", "t", ":", " ", "w", "s", ":", "/", "/", "1", "2", "7", ".", "0", ".", "0", ".", "1", ":", "9", "2", "2", "2", "/", "a", "b", "c", "1", "2", "3", "\n">>
LBare == <<"w", "s", ":", "/", "/", "\n">>
LTwo == <<"a", " ", "w", "s", ":", "/", "/", "b", "\t", "w", "s", ":", "/", "/", "c", "\n">>
LBareThenOther == <<"w", "s", ":", "/", "/", " ", "w", "s", ":", "/", "/", "d", "\n">>
Lines == {LListening, LEndpoint, LBare, LTwo, LBareThenOther}

\* Python's `sub in text`
Contains(text, sub) ==
    \E i \in 1..(Len(text) - Len(sub) + 1) :
        SubSeq(text, i, i + Len(sub) - 1) = sub

\* \S+ is greedy: the index of the last character of the run of
\* non-whitespace characters that starts at j
GreedyEnd_OneChar(text, j) == j

RECURSIVE GreedyEnd(_, _)
GreedyEnd(text, j) ==
    IF j + 1 <= Len(text) /\ text[j + 1] \notin Whitespace
    THEN GreedyEnd(text, j + 1)
    ELSE j

\* the pattern ws://\S+ tried at position i: None or Some(matched text)
MatchAt(text, i) ==
    IF /\ i + Len(WS_LITERAL) <= Len(text)
       /\ SubSeq(text, i, i + Len(WS_LITERAL) - 1) = WS_LITERAL
       /\ text[i + Len(WS_LITERAL)] \notin Whitespace
    THEN Some(SubSeq(text, i, GreedyEnd(text, i + Len(WS_LITERAL))))
    ELSE None

RECURSIVE SearchFrom(_, _)
SearchFrom(text, i) ==
    IF i > Len(text) THEN None
    ELSE IF MatchAt(text, i) # None THEN MatchAt(text, i)
    ELSE SearchFrom(text, i + 1)

\* re.search(r'ws://\S+', text) followed by match.group(0):
\* the leftmost match, None when there is none
re_search(text) == SearchFrom(text, 1)

\* Python truth value of an optional string (`not ws_endpoint`)
Falsy(opt) == opt = None \/ opt[1] = <<>>

----------------------------------------------------------------------------
(* What run_server prints *)

CapturedPrefix == <<"\n", "C", "a", "p", "t", "u", "r", "e", "d", " ", "W", "S", " ", "E", "n", "d", "p", "o", "i", "n", "t", ":", " ">>

Printed(k, t) == [kind |-> k, text |-> t]

----------------------------------------------------------------------------
(* The Launcher: server.py run_server *)

InTry == {"read", "echo", "test", "announce", "hint", "wait"}
Running == {"init", "read", "echo", "test", "announce", "hint", "wait",
            "stopping", "terminate", "wait2"}

LauncherInit ==
    /\ pc = "start"
    /\ process = "none"
    /\ streamOpen = FALSE
    /\ stdout = <<>>
    /\ received = <<>>
    /\ eof = FALSE
    /\ line = <<>>
    /\ ws_endpoint = None
    /\ out = <<>>
    /\ terminated = FALSE
    /\ intAt = <<>>

\* lines 6-17: print, then subprocess.Popen
Start ==
    /\ pc = "start"
    /\ out' = Append(out, Printed("starting", <<>>))
    /\ process' = "running"
    /\ streamOpen' = TRUE
    /\ pc' = "init"
    /\ UNCHANGED <<stdout, received, eof, line, ws_endpoint, terminated, intAt>>

\* line 19: ws_endpoint = None, then the try block is entered
InitEndpoint ==
    /\ pc = "init"
    /\ ws_endpoint' = None
    /\ pc' = "read"
    /\ UNCHANGED <<process, streamOpen, stdout, received, eof, line, out,
                   terminated, intAt>>

\* line 23: readline blocks until a line is available or the stream is closed;
\* '' (end of stream) ends the loop
ReadLine ==
    /\ pc = "read"
    /\ \/ /\ stdout # <<>>
          /\ line' = Head(stdout)
          /\ stdout' = Tail(stdout)
          /\ received' = Append(received, Head(stdout))
          /\ pc' = "echo"
          /\ UNCHANGED eof
       \/ /\ stdout = <<>>
          /\ ~streamOpen
          /\ eof' = TRUE
          /\ pc' = "wait"
          /\ UNCHANGED <<line, stdout, received>>
    /\ UNCHANGED <<process, streamOpen, ws_endpoint, out, terminated, intAt>>

\* line 24: print(line, end='')
Echo_Quiet ==
    /\ pc = "echo"
    /\ out' = IF ws_endpoint = None THEN Append(out, Printed("echo", line)) ELSE out
    /\ pc' = "test"
    /\ UNCHANGED <<process, streamOpen, stdout, received, eof, line,
                   ws_endpoint, terminated, intAt>>

Echo ==
    /\ pc = "echo"
    /\ out' = Append(out, Printed("echo", line))
    /\ pc' = "test"
    /\ UNCHANGED <<process, streamOpen, stdout, received, eof, line,
                   ws_endpoint, terminated, intAt>>

\* lines 25-29: the test and the capture
Match_Overwrite ==
    /\ pc = "test"
    /\ IF Contains(line, WS_LITERAL) /\ re_search(line) # None
       THEN ws_endpoint' = re_search(line) /\ pc' = "announce"
       ELSE ws_endpoint' = ws_endpoint /\ pc' = "read"
    /\ UNCHANGED <<process, streamOpen, stdout, received, eof, line, out,
                   terminated, intAt>>

Match ==
    /\ pc = "test"
    /\ IF Falsy(ws_endpoint) /\ Contains(line, WS_LITERAL) /\ re_search(line) # None
       THEN ws_endpoint' = re_search(line) /\ pc' = "announce"
       ELSE ws_endpoint' = ws_endpoint /\ pc' = "read"
    /\ UNCHANGED <<process, streamOpen, stdout, received, eof, line, out,
                   terminated, intAt>>

\* line 30: print(f"\nCaptured WS Endpoint: {ws_endpoint}")
Announce_Line ==
    /\ pc = "announce"
    /\ out' = Append(out, Printed("captured", CapturedPrefix \o line))
    /\ pc' = "hint"
    /\ UNCHANGED <<process, streamOpen, stdout, received, eof, line,
                   ws_endpoint, terminated, intAt>>

Announce ==
    /\ pc = "announce"
    /\ out' = Append(out, Printed("captured", CapturedPrefix \o ws_endpoint[1]))
    /\ pc' = "hint"
    /\ UNCHANGED <<process, streamOpen, stdout, received, eof, line,
                   ws_endpoint, terminated, intAt>>

\* line 31: print("You can now run the client script with this endpoint.")
Hint ==
    /\ pc = "hint"
    /\ out' = Append(out, Printed("hint", <<>>))
    /\ pc' = "read"
    /\ UNCHANGED <<process, streamOpen, stdout, received, eof, line,
                   ws_endpoint, terminated, intAt>>

\* line 33: process.wait() returns once the subprocess has exited;
\* run_server then returns
WaitExit_LoopAgain ==
    /\ pc = "wait"
    /\ process = "exited"
    /\ pc' = "read"
    /\ UNCHANGED <<process, streamOpen, stdout, received, eof, line,
                   ws_endpoint, out, terminated, intAt>>

WaitExit ==
    /\ pc = "wait"
    /\ process = "exited"
    /\ pc' = "done"
    /\ UNCHANGED <<process, streamOpen, stdout, received, eof, line,
                   ws_endpoint, out, terminated, intAt>>

\* line 35: print("\nStopping server...")
Stopping ==
    /\ pc = "stopping"
    /\ out' = Append(out, Printed("stopping", <<>>))
    /\ pc' = "terminate"
    /\ UNCHANGED <<process, streamOpen, stdout, received, eof, line,
                   ws_endpoint, terminated, intAt>>

\* line 36: process.terminate()
Terminate ==
    /\ pc = "terminate"
    /\ terminated' = TRUE
    /\ pc' = "wait2"
    /\ UNCHANGED <<process, streamOpen, stdout, received, eof, line,
                   ws_endpoint, out, intAt>>

\* line 37: process.wait(), no timeout; run_server then returns
WaitAfterTerminate_Timeout ==
    /\ pc = "wait2"
    /\ pc' = "done"
    /\ UNCHANGED <<process, streamOpen, stdout, received, eof, line,
                   ws_endpoint, out, terminated, intAt>>

WaitAfterTerminate ==
    /\ pc = "wait2"
    /\ process = "exited"
    /\ pc' = "done"
    /\ UNCHANGED <<process, streamOpen, stdout, received, eof, line,
                   ws_endpoint, out, terminated, intAt>>

\* KeyboardInterrupt raised in run_server while the subprocess object exists:
\* inside the try block (lines 21-33) the except clause of line 34 takes it;
\* at line 19 and inside the except block (lines 35-37) nothing catches it and
\* it leaves run_server
KeyboardInterrupt ==
    /\ pc \in Running
    /\ intAt' = Append(intAt, pc)
    /\ pc' = IF pc \in InTry THEN "stopping" ELSE "crashed"
    /\ UNCHANGED <<process, streamOpen, stdout, received, eof, line,
                   ws_endpoint, out, terminated>>

\* the steps of run_server itself
LauncherStep ==
    \/ Start
    \/ InitEndpoint
    \/ ReadLine
    \/ Echo
    \/ Match
    \/ Announce
    \/ Hint
    \/ WaitExit
    \/ Stopping
    \/ Terminate
    \/ WaitAfterTerminate

----------------------------------------------------------------------------
(* The subprocess and its output pipe (the Launcher's environment) *)

\* a holder of the pipe's write end writes one line
Emit ==
    /\ streamOpen
    /\ Len(received) + Len(stdout) < MaxLines
    /\ \E l \in Lines : stdout' = Append(stdout, l)
    /\ UNCHANGED <<pc, process, streamOpen, received, eof, line, ws_endpoint,
                   out, terminated, intAt>>

\* the last holder of the pipe's write end closes it
CloseStream ==
    /\ streamOpen
    /\ streamOpen' = FALSE
    /\ UNCHANGED <<pc, process, stdout, received, eof, line, ws_endpoint,
                   out, terminated, intAt>>

\* the subprocess exits (by itself, or after the termination request)
ProcessExit ==
    /\ process = "running"
    /\ process' = "exited"
    /\ UNCHANGED <<pc, streamOpen, stdout, received, eof, line, ws_endpoint,
                   out, terminated, intAt>>

----------------------------------------------------------------------------
(* The Connector: client.py *)

\* line 27: the default endpoint literal
DEFAULT_ENDPOINT == <<"w", "s", ":", "/", "/", "l", "o", "c", "a", "l", "h", "o", "s", "t", ":", "9", "2", "2", "2", "/", "p", "l", "a", "y", "w", "r", "i", "g", "h", "t">>

ScriptName == <<"c", "l", "i", "e", "n", "t", ".", "p", "y">>

\* values an operator may type as a command-line argument
ArgValues == {<<"w", "s", ":", "/", "/", "h", ":", "1", "/", "x">>, <<"n", "o", "t", " ", "a", " ", "u", "r", "l">>, <<>>}

RECURSIVE ArgLists(_)
ArgLists(n) ==
    IF n = 0 THEN {<<>>}
    ELSE ArgLists(n - 1) \cup
         {Append(a, v) : a \in {b \in ArgLists(n - 1) : Len(b) = n - 1}, v \in ArgValues}

\* sys.argv: the script name, then at most MaxArgs arguments
Argvs == {<<ScriptName>> \o a : a \in ArgLists(MaxArgs)}

\* page titles the remote page may report
Titles == {<<>>, <<"X">>}

\* the library calls of run_client, in program order (lines 8, 11, 14, 16, 20, 24)
CallOrder == <<"connect", "new_page", "goto", "title", "screenshot", "close">>

ClientInit ==
    /\ cpc = "main"
    /\ argv \in Argvs
    /\ endpoint = None
    /\ playwright = "none"
    /\ browser = "none"
    /\ steps = <<>>
    /\ failed = "none"
    /\ cout = <<>>

\* lines 27-31: choose the endpoint, call run_client; line 5 prints it
Main_ScriptName ==
    /\ cpc = "main"
    /\ endpoint' = Some(IF Len(argv) > 1 THEN argv[1] ELSE DEFAULT_ENDPOINT)
    /\ cout' = Append(cout, Printed("connecting", endpoint'[1]))
    /\ cpc' = "enter"
    /\ UNCHANGED <<argv, playwright, browser, steps, failed>>

Main ==
    /\ cpc = "main"
    /\ endpoint' = Some(IF Len(argv) > 1 THEN argv[2] ELSE DEFAULT_ENDPOINT)
    /\ cout' = Append(cout, Printed("connecting", endpoint'[1]))
    /\ cpc' = "enter"
    /\ UNCHANGED <<argv, playwright, browser, steps, failed>>

\* line 6: with sync_playwright() as p  (entering the context may raise)
EnterPlaywright ==
    /\ cpc = "enter"
    /\ \/ /\ playwright' = "entered"
          /\ cpc' = "connect"
          /\ failed' = failed
       \/ /\ playwright' = playwright
          /\ cpc' = "raised"
          /\ failed' = "sync_playwright"
    /\ UNCHANGED <<argv, endpoint, browser, steps, cout>>

\* a library call inside the with block either returns, and run_client goes
\* on to the next statement, or raises; nothing in run_client catches the
\* exception, so it leaves the with block
LibCall_Swallow(at, nxt) ==
    /\ cpc = at
    /\ \/ /\ steps' = Append(steps, at)
          /\ cpc' = nxt
          /\ failed' = failed
       \/ /\ steps' = steps
          /\ cpc' = nxt
          /\ failed' = at

LibCall(at, nxt) ==
    /\ cpc = at
    /\ \/ /\ steps' = Append(steps, at)
          /\ cpc' = nxt
          /\ failed' = failed
       \/ /\ steps' = steps
          /\ cpc' = "unwind"
          /\ failed' = at

Returned(at) == steps' = Append(steps, at)

\* line 8: browser = p.chromium.connect(ws_endpoint)
Connect ==
    /\ LibCall("connect", "new_page")
    /\ browser' = IF Returned("connect") THEN "open" ELSE browser
    /\ UNCHANGED <<argv, endpoint, playwright, cout>>

\* line 11: page = browser.new_page(); line 13 prints
NewPage ==
    /\ LibCall("new_page", "goto")
    /\ cout' = IF Returned("new_page") THEN Append(cout, Printed("navigating", <<>>)) ELSE cout
    /\ UNCHANGED <<argv, endpoint, playwright, browser>>

\* line 14: page.goto("https://x.com")
Goto ==
    /\ LibCall("goto", "title")
    /\ UNCHANGED <<argv, endpoint, playwright, browser, cout>>

\* lines 16-17: title = page.title(); print(f"Page title: {title}")
Title ==
    /\ LibCall("title", "screenshot")
    /\ \E t \in Titles :
          cout' = IF Returned("title") THEN Append(cout, Printed("title", t)) ELSE cout
    /\ UNCHANGED <<argv, endpoint, playwright, browser>>

\* lines 19-21: page.screenshot(path="remote_screenshot.png"); print
Screenshot ==
    /\ LibCall("screenshot", "close")
    /\ cout' = IF Returned("screenshot") THEN Append(cout, Printed("saved", <<>>)) ELSE cout
    /\ UNCHANGED <<argv, endpoint, playwright, browser>>

\* line 24: browser.close()
Close ==
    /\ LibCall("close", "exit")
    /\ browser' = IF Returned("close") THEN "closed" ELSE browser
    /\ UNCHANGED <<argv, endpoint, playwright, cout>>

\* end of the with block of line 6, reached normally: run_client returns
ExitPlaywright ==
    /\ cpc = "exit"
    /\ playwright' = "exited"
    /\ cpc' = "done"
    /\ UNCHANGED <<argv, endpoint, browser, steps, failed, cout>>

\* the with block of line 6 left by an exception: the context is exited and
\* the exception leaves run_client and the script
Unwind ==
    /\ cpc = "unwind"
    /\ playwright' = "exited"
    /\ cpc' = "raised"
    /\ UNCHANGED <<argv, endpoint, browser, steps, failed, cout>>

ClientNext ==
    \/ (Main /\ UNCHANGED lvars)
    \/ (EnterPlaywright /\ UNCHANGED lvars)
    \/ (Connect /\ UNCHANGED lvars)
    \/ (NewPage /\ UNCHANGED lvars)
    \/ (Goto /\ UNCHANGED lvars)
    \/ (Title /\ UNCHANGED lvars)
    \/ (Screenshot /\ UNCHANGED lvars)
    \/ (Close /\ UNCHANGED lvars)
    \/ (ExitPlaywright /\ UNCHANGED lvars)
    \/ (Unwind /\ UNCHANGED lvars)

ClientSpecInit ==
    /\ LauncherInit
    /\ ClientInit

ClientSpec == ClientSpecInit /\ [][ClientNext]_vars

----------------------------------------------------------------------------
(* Specifications *)

\* the Connector is a separate program; while the Launcher is studied it
\* stays where it starts
ClientIdle == ClientInit /\ argv = <<ScriptName>>

Init == LauncherInit /\ ClientIdle

Next ==
    \/ (Start /\ UNCHANGED cvars)
    \/ (InitEndpoint /\ UNCHANGED cvars)
    \/ (ReadLine /\ UNCHANGED cvars)
    \/ (Echo /\ UNCHANGED cvars)
    \/ (Match /\ UNCHANGED cvars)
    \/ (Announce /\ UNCHANGED cvars)
    \/ (Hint /\ UNCHANGED cvars)
    \/ (WaitExit /\ UNCHANGED cvars)
    \/ (Stopping /\ UNCHANGED cvars)
    \/ (Terminate /\ UNCHANGED cvars)
    \/ (WaitAfterTerminate /\ UNCHANGED cvars)
    \/ (KeyboardInterrupt /\ UNCHANGED cvars)
    \/ (Emit /\ UNCHANGED cvars)
    \/ (CloseStream /\ UNCHANGED cvars)
    \/ (ProcessExit /\ UNCHANGED cvars)

Spec == Init /\ [][Next]_vars

\* run_server is one sequential thread: whenever one of its steps can run,
\* one eventually does; the subprocess and the operator are not constrained
LiveSpec == Init /\ [][Next]_vars /\ WF_vars(LauncherStep /\ UNCHANGED cvars)

----------------------------------------------------------------------------
(* Vocabulary of the properties *)

Min(S) == CHOOSE x \in S : \A y \in S : x <= y
Max(S) == CHOOSE x \in S : \A y \in S : x >= y

IsPrefix(a, b) == Len(a) <= Len(b) /\ SubSeq(b, 1, Len(a)) = a

\* positions of text where "ws://" is followed by a non-whitespace character
TokenStarts(text) ==
    {i \in 1..Len(text) :
        /\ i + 5 <= Len(text)
        /\ \A k \in 1..5 : text[i + k - 1] = WS_LITERAL[k]
        /\ text[i + 5] \notin Whitespace}

\* the leftmost ws:// token of text: from its start to the end of the
\* longest run of non-whitespace characters
FirstToken(text) ==
    LET i == Min(TokenStarts(text))
        j == Max({k \in (i + 5)..Len(text) :
                    \A m \in (i + 5)..k : text[m] \notin Whitespace})
    IN  SubSeq(text, i, j)

\* the lines, by position, that hold a ws:// token
MatchingLines(ls) == {k \in 1..Len(ls) : TokenStarts(ls[k]) # {}}

ExpectedEndpoint(ls) ==
    IF MatchingLines(ls) = {} THEN None
    ELSE Some(FirstToken(ls[Min(MatchingLines(ls))]))

\* the texts echoed so far, in order
EchoTexts ==
    LET e == SelectSeq(out, LAMBDA r : r.kind = "echo")
    IN  [i \in 1..Len(e) |-> e[i].text]

\* positions in out of the 'Captured WS Endpoint' message
CapturedAt == {i \in 1..Len(out) : out[i].kind = "captured"}

EchoesBefore(i) == Len(SelectSeq(SubSeq(out, 1, i - 1), LAMBDA r : r.kind = "echo"))

Stopped == pc \in {"done", "crashed"}

Phase ==
    IF pc = "start" THEN "NOT_STARTED"
    ELSE IF Stopped THEN "STOPPED"
    ELSE IF ws_endpoint = None THEN "RUNNING_NO_ENDPOINT"
    ELSE "RUNNING_CAPTURED"

ForwardSteps ==
    {<<"NOT_STARTED", "RUNNING_NO_ENDPOINT">>,
     <<"RUNNING_NO_ENDPOINT", "RUNNING_CAPTURED">>,
     <<"RUNNING_NO_ENDPOINT", "STOPPED">>,
     <<"RUNNING_CAPTURED", "STOPPED">>}

InterruptedAt(p) == intAt # <<>> /\ intAt[1] = p

----------------------------------------------------------------------------
(* Launcher properties *)

\* C1: when the stream has ended, ws_endpoint is the leftmost ws://\S+ match
\* of the earliest received line that has one, and None when no line has one;
\* a line with "ws://" and no non-whitespace character after it captures
\* nothing and does not stop a later line from capturing.
C1_FirstMatchCaptured == eof => ws_endpoint = ExpectedEndpoint(received)

C1_Witness ==
    /\ eof
    /\ Len(received) >= 2
    /\ received[1] = LBare
    /\ received[2] = LEndpoint
    /\ ws_endpoint = Some(FirstToken(LEndpoint))

\* C2: every step keeps the phase or moves it forward along
\* NOT_STARTED -> RUNNING(no-endpoint) -> RUNNING(endpoint-captured) -> STOPPED
\* (the captured phase may be skipped), so the capture step happens at most
\* once and nothing leaves STOPPED; once set, ws_endpoint never changes.
C2_ForwardOnly ==
    [][ /\ (Phase' = Phase \/ <<Phase, Phase'>> \in ForwardSteps)
        /\ (ws_endpoint # None => ws_endpoint' = ws_endpoint) ]_vars

C2_Witness ==
    /\ pc = "read"
    /\ ws_endpoint # None
    /\ Len(received) >= 2
    /\ TokenStarts(received[Len(received)]) # {}
    /\ FirstToken(received[Len(received)]) # ws_endpoint[1]
    /\ EchoTexts = received

\* C3 as stated: when run_server has returned, every received line has been
\* echoed exactly once, verbatim and in arrival order.
C3_EveryLineEchoed == pc = "done" => EchoTexts = received

\* C3 amended: the echoes are always the received lines, verbatim and in
\* arrival order, each at most once; only the last received line can lack
\* its echo, and only while its print is still to come or when a
\* KeyboardInterrupt arrived after its read and before its print.
C3_EchoedUnlessInterrupted ==
    /\ IsPrefix(EchoTexts, received)
    /\ Len(received) <= Len(EchoTexts) + 1
    /\ (EchoTexts # received => pc = "echo" \/ InterruptedAt("echo"))

C3_Witness ==
    /\ pc = "done"
    /\ Len(received) >= 2
    /\ TokenStarts(received[1]) # {}
    /\ ws_endpoint # None
    /\ EchoTexts = received

\* C4 as stated: when run_server has returned, the confirmation has been
\* printed exactly once if a line matched (the test of lines 25-28 succeeded
\* and set ws_endpoint) and never otherwise.
C4_ConfirmationExactlyOnce ==
    pc = "done" =>
        Cardinality(CapturedAt) = (IF ws_endpoint = None THEN 0 ELSE 1)

\* C4 amended: the confirmation is printed at most once and never when no
\* received line matches; it carries the captured endpoint, directly follows
\* the echo of the line that triggered the capture and so precedes the echo
\* of every later line; it has been printed whenever the endpoint is captured,
\* unless its print is still to come or a KeyboardInterrupt arrived between
\* the capture and the print; a run that reaches the end of the stream with
\* a matching line has printed it exactly once.
C4_ConfirmationOnceUnlessInterrupted ==
    /\ Cardinality(CapturedAt) <= 1
    /\ (MatchingLines(received) = {} => CapturedAt = {})
    /\ \A i \in CapturedAt :
          /\ ws_endpoint # None
          /\ out[i].text = CapturedPrefix \o ws_endpoint[1]
          /\ i > 1
          /\ out[i - 1] = Printed("echo", received[Min(MatchingLines(received))])
          /\ EchoesBefore(i) = Min(MatchingLines(received))
    /\ (ws_endpoint # None /\ CapturedAt = {} =>
            pc = "announce" \/ InterruptedAt("announce"))
    /\ (eof /\ MatchingLines(received) # {} => Cardinality(CapturedAt) = 1)

C4_Witness ==
    /\ eof
    /\ Cardinality(CapturedAt) = 1
    /\ Len(received) >= 2
    /\ Min(MatchingLines(received)) < Len(received)
    /\ Len(EchoTexts) > EchoesBefore(Min(CapturedAt))

\* C5: a KeyboardInterrupt delivered at any point while the subprocess is
\* running leads to a termination request and to run_server returning, with
\* no unhandled error leaving run_server.
C5_InterruptHandled ==
    intAt # <<>> => (pc # "crashed" /\ (pc = "done" => terminated))

\* C9 as stated: once the subprocess has exited, the Launcher eventually
\* reaches STOPPED.
C9_ExitLeadsToStopped == (process = "exited") ~> Stopped

\* C9 amended: once the subprocess has exited and its output stream has been
\* closed, the Launcher eventually reaches STOPPED.
C9_ExitAndEofLeadToStopped == (process = "exited" /\ ~streamOpen) ~> Stopped

C9_Witness ==
    /\ pc = "done"
    /\ eof
    /\ intAt = <<>>
    /\ process = "exited"
    /\ received # <<>>

\* C10: run_server returns normally only after the subprocess has exited:
\* on the end-of-stream path after the wait of line 33, on the interrupt path
\* after terminate() and the wait of line 37; terminate() is called only on
\* the interrupt path.
C10_ReturnsAfterExit ==
    /\ (pc = "done" => process = "exited")
    /\ (pc = "done" /\ intAt = <<>> => eof /\ ~terminated)
    /\ (pc = "done" /\ intAt # <<>> => terminated)
    /\ (terminated => intAt # <<>>)

C10_Witness ==
    /\ pc = "done"
    /\ terminated
    /\ InterruptedAt("read")
    /\ process = "exited"

----------------------------------------------------------------------------
(* Connector properties *)

\* C6: run_client receives the default literal when the Connector is given no
\* argument and the first argument, as typed, when it is given one.
C6_EndpointChoice ==
    cpc # "main" =>
        /\ (Len(argv) = 1 => endpoint = Some(DEFAULT_ENDPOINT))
        /\ (Len(argv) = 2 => endpoint = Some(argv[2]))

C6_Witness ==
    /\ cpc = "connect"
    /\ Len(argv) = 2
    /\ argv[2] = <<>>
    /\ endpoint = Some(<<>>)

\* C7: the library calls happen in the order connect, new_page, goto, title,
\* screenshot, close, each at most once and each only after all earlier ones
\* returned; after a call raises no later call is made and the run ends.
C7_StrictSequence ==
    /\ IsPrefix(steps, CallOrder)
    /\ \A k \in 1..Len(CallOrder) :
          cpc = CallOrder[k] => steps = SubSeq(CallOrder, 1, k - 1) /\ failed = "none"
    /\ (failed # "none" => cpc \in {"unwind", "raised"})
    /\ (failed \notin {"none", "sync_playwright"} =>
            Len(steps) < Len(CallOrder) /\ failed = CallOrder[Len(steps) + 1])
    /\ (failed = "sync_playwright" => steps = <<>>)

C7_Witness ==
    /\ cpc = "raised"
    /\ failed = "goto"
    /\ steps = <<"connect", "new_page">>

====
